---- MODULE Spec2Model ----
(***************************************************************************)
(* The fungible-token ledger of src/erc20/src/contract/mod.rs as a state    *)
(* machine over a byte-keyed store.  Texts are sequences of byte codes,     *)
(* store keys and values are byte sequences, and a u128 is held as eight    *)
(* 16-bit limbs (most significant first) so that the 128-bit width, the    *)
(* 16-byte big-endian layout and the decimal / hex parsers are computed as  *)
(* the code computes them.                                                  *)
(***************************************************************************)
EXTENDS Integers, Sequences, FiniteSets, TLC

VARIABLES
    store,   \* the Storage handed to init/handle: key bytes -> value bytes
    phase,   \* "new" before init, "ready" after Ok(init), "dead" otherwise
    pre,     \* the store as it was when the last call was entered
    last,    \* the last call: its entry point, signer, message and result
    calls,   \* number of handle calls made so far
    hist     \* what the calls so far have been (see HistAfterInit, HistAfter)

vars == <<store, phase, pre, last, calls, hist>>

-----------------------------------------------------------------------------
(* Bounds of the model *)

\* handle calls explored after init
MaxCalls == 2
\* rows of InitMsg.initial_balances explored
MaxSeed == 2
\* longest stored value handed to read_u128
MaxValueLen == 18
\* handle calls explored on the mask contract
MaxMaskCalls == 3
\* approve and transferFrom calls explored on one seeded token
MaxAllowCalls == 3

-----------------------------------------------------------------------------
(* Bytes, texts and 128-bit unsigned integers *)

ByteBase == 256
\* one limb of a u128 holds two bytes
LimbBase == ByteBase * ByteBase
\* [u8; 16] of u128::to_be_bytes / the slice data[0..16]
U128Bytes == 16
NumLimbs == U128Bytes \div 2
\* [u8; 20] of parse_20bytes_from_hex
AddrBytes == 20

Rep(n, c) == [i \in 1..n |-> c]

U128Zero == Rep(NumLimbs, 0)
U128Max == Rep(NumLimbs, LimbBase - 1)
U128FromSmall(d) == [i \in 1..NumLimbs |-> IF i = NumLimbs THEN d ELSE 0]

\* carry out of limbs i+1..NumLimbs of a + b
RECURSIVE CarryInto(_, _, _)
CarryInto(a, b, i) ==
    IF i = NumLimbs THEN 0
    ELSE (a[i + 1] + b[i + 1] + CarryInto(a, b, i + 1)) \div LimbBase

\* u128::overflowing_add: the wrapped sum and whether a + b >= 2^128
AddOverflows(a, b) == CarryInto(a, b, 0) = 1
WrappingAdd(a, b) ==
    [i \in 1..NumLimbs |-> (a[i] + b[i] + CarryInto(a, b, i)) % LimbBase]

\* borrow out of limbs i+1..NumLimbs of a - b
RECURSIVE BorrowInto(_, _, _)
BorrowInto(a, b, i) ==
    IF i = NumLimbs THEN 0
    ELSE IF a[i + 1] - b[i + 1] - BorrowInto(a, b, i + 1) < 0 THEN 1 ELSE 0

WrappingSub(a, b) ==
    [i \in 1..NumLimbs |->
        (a[i] - b[i] - BorrowInto(a, b, i) + LimbBase) % LimbBase]

\* a < b on u128
U128Less(a, b) == BorrowInto(a, b, 0) = 1

\* carry out of limbs i+1..NumLimbs of a * k, for a small k
RECURSIVE MulCarryInto(_, _, _)
MulCarryInto(a, k, i) ==
    IF i = NumLimbs THEN 0
    ELSE (a[i + 1] * k + MulCarryInto(a, k, i + 1)) \div LimbBase

MulOverflows(a, k) == MulCarryInto(a, k, 0) > 0
WrappingMul(a, k) ==
    [i \in 1..NumLimbs |-> (a[i] * k + MulCarryInto(a, k, i)) % LimbBase]

\* to_be_bytes of the low half only, as u64::to_be_bytes would give
to_be_bytes_u64(v) ==
    [k \in 1..(U128Bytes \div 2) |->
        LET j == k + U128Bytes \div 2
        IN  IF j % 2 = 1 THEN v[(j + 1) \div 2] \div ByteBase
                         ELSE v[j \div 2] % ByteBase]

\* u128::to_be_bytes: 16 bytes, most significant first
to_be_bytes(v) ==
    [k \in 1..U128Bytes |->
        IF k % 2 = 1 THEN v[(k + 1) \div 2] \div ByteBase
                     ELSE v[k \div 2] % ByteBase]

\* u128::from_be_bytes on a 16-byte array
from_be_bytes(bytes) ==
    [i \in 1..NumLimbs |-> bytes[2 * i - 1] * ByteBase + bytes[2 * i]]

\* u8::to_be_bytes
u8_to_be_bytes(n) == <<n>>

-----------------------------------------------------------------------------
(* Results *)

Ok == [tag |-> "Ok"]
OkVal(v) == [tag |-> "Ok", val |-> v]
ParseErr(kind) == [tag |-> "ParseErr", msg |-> kind]
ContractErr(m) == [tag |-> "ContractErr", msg |-> m]
DynContractErr(m, have, required) ==
    [tag |-> "DynContractErr", msg |-> m, have |-> have, required |-> required]
DynContractErrText(m) == [tag |-> "DynContractErr", msg |-> m]
\* the call aborts without returning a Result
Panic(m) == [tag |-> "Panic", msg |-> m]
\* Ok(Response { messages: vec![], log, data: None })
Response(log) == [tag |-> "Ok", messages |-> <<>>, log |-> log, data |-> "None"]
ResponseDefault == Response("None")

-----------------------------------------------------------------------------
(* Parsers *)

IsDigit(c) == c >= 48 /\ c <= 57

\* the `checked_mul(10)` / `checked_add(digit)` loop of str::parse::<u128>
\* over the first n characters of digits
RECURSIVE ParseDigits(_, _)
ParseDigits(digits, n) ==
    IF n = 0 THEN OkVal(U128Zero)
    ELSE LET head == ParseDigits(digits, n - 1)
             c == digits[n]
         IN  IF head.tag # "Ok" THEN head
             ELSE IF ~IsDigit(c) THEN [tag |-> "InvalidDigit"]
             ELSE IF MulOverflows(head.val, 10) THEN [tag |-> "PosOverflow"]
             ELSE LET shifted == WrappingMul(head.val, 10)
                      d == U128FromSmall(c - 48)
                  IN  IF AddOverflows(shifted, d) THEN [tag |-> "PosOverflow"]
                      ELSE OkVal(WrappingAdd(shifted, d))

\* decimal.parse::<u128>(): an optional leading '+', then at least one digit
StrParseU128(text) ==
    IF Len(text) = 0 THEN [tag |-> "Empty"]
    ELSE LET digits == IF text[1] = 43 THEN Tail(text) ELSE text
         IN  IF Len(digits) = 0 THEN [tag |-> "InvalidDigit"]
             ELSE ParseDigits(digits, Len(digits))

parse_u128_of(decimal) ==
    LET r == StrParseU128(decimal)
    IN  IF r.tag = "Ok" THEN OkVal(r.val)
        ELSE ContractErr("Error while parsing decimal string to u128")

\* value of one hexadecimal character, -1 when it is none
HexVal(c) ==
    IF c >= 48 /\ c <= 57 THEN c - 48
    ELSE IF c >= 97 /\ c <= 102 THEN c - 97 + 10
    ELSE IF c >= 65 /\ c <= 70 THEN c - 65 + 10
    ELSE -1

\* hex::decode_to_slice(data, &mut [0u8; 20])
HexDecodeToSlice(data) ==
    IF Len(data) % 2 # 0 THEN [tag |-> "OddLength"]
    ELSE IF Len(data) \div 2 # AddrBytes THEN [tag |-> "InvalidStringLength"]
    ELSE IF \E i \in 1..Len(data) : HexVal(data[i]) < 0
         THEN [tag |-> "InvalidHexCharacter"]
    ELSE OkVal([k \in 1..AddrBytes |->
                   HexVal(data[2 * k - 1]) * 16 + HexVal(data[2 * k])])

parse_20bytes_from_hex_of(data) ==
    LET r == HexDecodeToSlice(data)
    IN  IF r.tag = "Ok" THEN OkVal(r.val)
        ELSE DynContractErrText("parsing hash")

\* name.as_bytes().len() in [3, 30]
is_valid_name(name) == ~(Len(name) < 3 \/ Len(name) > 30)

\* symbol.as_bytes().len() in [3, 6] and every byte in 'A'..'Z'
is_valid_symbol(symbol) ==
    /\ ~(Len(symbol) < 3 \/ Len(symbol) > 6)
    /\ \A i \in 1..Len(symbol) : ~(symbol[i] < 65 \/ symbol[i] > 90)

-----------------------------------------------------------------------------
(* The store and its typed accessors *)

KEY_TOTAL_SUPPLY == <<116, 111, 116, 97, 108, 95, 115, 117, 112, 112, 108, 121>>
KEY_NAME == <<110, 97, 109, 101>>
KEY_SYMBOL == <<115, 121, 109, 98, 111, 108>>
KEY_DECIMALS == <<100, 101, 99, 105, 109, 97, 108, 115>>

\* a new, empty Storage
EmptyStore == [k \in {} |-> <<>>]

\* Storage::get
StoreHas(st, key) == key \in DOMAIN st
\* Storage::set
StoreSet(st, key, value) ==
    [k \in (DOMAIN st) \cup {key} |-> IF k = key THEN value ELSE st[k]]

\* Some(data) => data[0..16].try_into(); None => 0.  The slice data[0..16]
\* aborts when data is shorter than 16 bytes and is 16 bytes long otherwise.
read_u128(st, key) ==
    IF ~StoreHas(st, key) THEN OkVal(U128Zero)
    ELSE LET data == st[key]
         IN  IF Len(data) < U128Bytes
             THEN Panic("range end index 16 out of range for slice")
             ELSE LET slice == SubSeq(data, 1, U128Bytes)
                  IN  IF Len(slice) = U128Bytes
                      THEN OkVal(from_be_bytes(slice))
                      ELSE ContractErr("Corrupted data found. 16 byte expected.")

AllowanceKey(owner, spender) == owner \o spender

read_allowance(st, owner, spender) ==
    read_u128(st, AllowanceKey(owner, spender))

\* write_allowance keyed by the owner alone
write_allowance_owner_key(st, owner, spender, amount) ==
    StoreSet(st, owner, to_be_bytes(amount))

\* write_allowance adding the amount to the allowance already stored
write_allowance_add(st, owner, spender, amount) ==
    StoreSet(st, AllowanceKey(owner, spender),
             to_be_bytes(WrappingAdd(read_allowance(st, owner, spender).val,
                                     amount)))

write_allowance(st, owner, spender, amount) ==
    StoreSet(st, AllowanceKey(owner, spender), to_be_bytes(amount))

-----------------------------------------------------------------------------
(* The inputs explored *)

Digits(ds) == [i \in 1..Len(ds) |-> 48 + ds[i]]

\* "aa..a", "bb..b", "cc..c": the hex texts of three 20-byte addresses
AddrA == Rep(2 * AddrBytes, 97)
AddrB == Rep(2 * AddrBytes, 98)
AddrC == Rep(2 * AddrBytes, 99)
\* a hex text of 19 bytes
AddrShort == Rep(2 * AddrBytes - 2, 97)
GoodAddrTexts == {AddrA, AddrB, AddrC}
AddrTexts == GoodAddrTexts \cup {AddrShort}

AmtZero == Digits(<<0>>)
AmtOne == Digits(<<1>>)
AmtTwo == Digits(<<2>>)
\* 2^128 - 1 in decimal
AmtMax == Digits(<<3,4,0,2,8,2,3,6,6,9,2,0,9,3,8,4,6,3,4,6,3,3,7,4,6,0,7,
                   4,3,1,7,6,8,2,1,1,4,5,5>>)
\* "x"
AmtBad == <<120>>
GoodAmtTexts == {AmtZero, AmtOne, AmtMax}
AmtTexts == GoodAmtTexts \cup {AmtTwo, AmtBad}

\* the parsers' results on the texts explored, computed once
AmtTable == [t \in AmtTexts |-> parse_u128_of(t)]
AddrTable == [t \in AddrTexts |-> parse_20bytes_from_hex_of(t)]

parse_u128(decimal) ==
    IF decimal \in DOMAIN AmtTable THEN AmtTable[decimal]
    ELSE parse_u128_of(decimal)

parse_20bytes_from_hex(data) ==
    IF data \in DOMAIN AddrTable THEN AddrTable[data]
    ELSE parse_20bytes_from_hex_of(data)

\* the raw addresses and amounts behind the good texts
Raw(t) == parse_20bytes_from_hex(t).val
Amt(t) == parse_u128(t).val
RawAddrs == {Raw(t) : t \in GoodAddrTexts}

-----------------------------------------------------------------------------
(* The engines: each maps a store and a request to the store it leaves and  *)
(* the result it returns.  wrap tells whether the build's u128 `+=` wraps   *)
(* on overflow (TRUE) or aborts (FALSE).                                    *)

Out(st, res) == [store |-> st, res |-> res]

\* perform_transfer with the debit written before the balance is compared
perform_transfer_write_first(st, from, to, amount, wrap) ==
    LET fb == read_u128(st, from)
    IN  IF fb.tag # "Ok" THEN Out(st, fb)
        ELSE LET s0 == StoreSet(st, from,
                           to_be_bytes(WrappingSub(fb.val, amount)))
             IN  IF U128Less(fb.val, amount)
                 THEN Out(s0, DynContractErr("Insufficient funds", fb.val,
                                  amount))
                 ELSE LET tb == read_u128(s0, to)
                      IN  Out(StoreSet(s0, to,
                                  to_be_bytes(WrappingAdd(tb.val, amount))), Ok)

perform_transfer(st, from, to, amount, wrap) ==
    LET fb == read_u128(st, from)
    IN  IF fb.tag # "Ok" THEN Out(st, fb)
        ELSE IF U128Less(fb.val, amount)
             THEN Out(st, DynContractErr("Insufficient funds", fb.val, amount))
        ELSE LET tb == read_u128(st, to)
             IN  IF tb.tag # "Ok" THEN Out(st, tb)
                 ELSE IF AddOverflows(tb.val, amount) /\ ~wrap
                      THEN Out(st, Panic("attempt to add with overflow"))
                 ELSE LET from_balance == WrappingSub(fb.val, amount)
                          to_balance == WrappingAdd(tb.val, amount)
                          s1 == StoreSet(st, from, to_be_bytes(from_balance))
                          s2 == StoreSet(s1, to, to_be_bytes(to_balance))
                      IN  Out(s2, Ok)

try_transfer(st, signer, recipient, amount, wrap) ==
    LET sender_address_raw == parse_20bytes_from_hex(signer)
        recipient_address_raw == parse_20bytes_from_hex(recipient)
        amount_raw == parse_u128(amount)
    IN  IF sender_address_raw.tag # "Ok" THEN Out(st, sender_address_raw)
        ELSE IF recipient_address_raw.tag # "Ok"
             THEN Out(st, recipient_address_raw)
        ELSE IF amount_raw.tag # "Ok" THEN Out(st, amount_raw)
        ELSE LET t == perform_transfer(st, sender_address_raw.val,
                          recipient_address_raw.val, amount_raw.val, wrap)
             IN  IF t.res.tag # "Ok" THEN t
                 ELSE Out(t.store, Response("transfer successful"))

\* transfer_from_raw reading the allowance the spender gave the owner
transfer_from_raw_swapped(st, spender, owner, recipient, amount, wrap) ==
    LET allowance == read_allowance(st, spender, owner)
    IN  IF U128Less(allowance.val, amount)
        THEN Out(st, DynContractErr("Insufficient allowance", allowance.val,
                         amount))
        ELSE LET s1 == write_allowance(st, owner, spender,
                           WrappingSub(allowance.val, amount))
                 t == perform_transfer(s1, owner, recipient, amount, wrap)
             IN  IF t.res.tag # "Ok" THEN t
                 ELSE Out(t.store, Response("transfer from successful"))

\* transfer_from_raw comparing the owner's balance before it writes the
\* decremented allowance
transfer_from_raw_check_first(st, spender, owner, recipient, amount, wrap) ==
    LET allowance == read_allowance(st, owner, spender)
        balance == read_u128(st, owner)
    IN  IF U128Less(allowance.val, amount)
        THEN Out(st, DynContractErr("Insufficient allowance", allowance.val,
                         amount))
        ELSE IF U128Less(balance.val, amount)
        THEN Out(st, DynContractErr("Insufficient funds", balance.val, amount))
        ELSE LET s1 == write_allowance(st, owner, spender,
                           WrappingSub(allowance.val, amount))
                 t == perform_transfer(s1, owner, recipient, amount, wrap)
             IN  IF t.res.tag # "Ok" THEN t
                 ELSE Out(t.store, Response("transfer from successful"))

\* transfer_from_raw that leaves the allowance as it found it
transfer_from_raw_no_decrement(st, spender, owner, recipient, amount, wrap) ==
    LET allowance == read_allowance(st, owner, spender)
    IN  IF U128Less(allowance.val, amount)
        THEN Out(st, DynContractErr("Insufficient allowance", allowance.val,
                         amount))
        ELSE LET t == perform_transfer(st, owner, recipient, amount, wrap)
             IN  IF t.res.tag # "Ok" THEN t
                 ELSE Out(t.store, Response("transfer from successful"))

\* try_transfer_from once its four texts are parsed: the allowance gate,
\* the allowance decrement, then the transfer
transfer_from_raw(st, spender, owner, recipient, amount, wrap) ==
    LET allowance == read_allowance(st, owner, spender)
    IN  IF allowance.tag # "Ok" THEN Out(st, allowance)
        ELSE IF U128Less(allowance.val, amount)
             THEN Out(st, DynContractErr("Insufficient allowance",
                              allowance.val, amount))
        ELSE LET s1 == write_allowance(st, owner, spender,
                           WrappingSub(allowance.val, amount))
                 t == perform_transfer(s1, owner, recipient, amount, wrap)
             IN  IF t.res.tag # "Ok" THEN t
                 ELSE Out(t.store, Response("transfer from successful"))

try_transfer_from(st, signer, owner, recipient, amount, wrap) ==
    LET spender_address_raw == parse_20bytes_from_hex(signer)
        owner_address_raw == parse_20bytes_from_hex(owner)
        recipient_address_raw == parse_20bytes_from_hex(recipient)
        amount_raw == parse_u128(amount)
    IN  IF spender_address_raw.tag # "Ok" THEN Out(st, spender_address_raw)
        ELSE IF owner_address_raw.tag # "Ok" THEN Out(st, owner_address_raw)
        ELSE IF recipient_address_raw.tag # "Ok"
             THEN Out(st, recipient_address_raw)
        ELSE IF amount_raw.tag # "Ok" THEN Out(st, amount_raw)
        ELSE transfer_from_raw(st, spender_address_raw.val,
                 owner_address_raw.val, recipient_address_raw.val,
                 amount_raw.val, wrap)

try_approve(st, signer, spender, amount) ==
    LET owner_address_raw == parse_20bytes_from_hex(signer)
        spender_address_raw == parse_20bytes_from_hex(spender)
        amount_raw == parse_u128(amount)
    IN  IF owner_address_raw.tag # "Ok" THEN Out(st, owner_address_raw)
        ELSE IF spender_address_raw.tag # "Ok" THEN Out(st, spender_address_raw)
        ELSE IF amount_raw.tag # "Ok" THEN Out(st, amount_raw)
        ELSE Out(write_allowance(st, owner_address_raw.val,
                     spender_address_raw.val, amount_raw.val),
                 Response("approve successful"))

\* HandleMsg, as from_slice decodes it; any other payload is "garbage"
ApproveMsg(spender, amount) ==
    [variant |-> "approve", spender |-> spender, amount |-> amount]
TransferMsg(recipient, amount) ==
    [variant |-> "transfer", recipient |-> recipient, amount |-> amount]
TransferFromMsg(owner, recipient, amount) ==
    [variant |-> "transferfrom", owner |-> owner, recipient |-> recipient,
     amount |-> amount]
GarbageMsg == [variant |-> "garbage"]

handle(st, signer, msg, wrap) ==
    IF msg.variant = "approve"
    THEN try_approve(st, signer, msg.spender, msg.amount)
    ELSE IF msg.variant = "transfer"
    THEN try_transfer(st, signer, msg.recipient, msg.amount, wrap)
    ELSE IF msg.variant = "transferfrom"
    THEN try_transfer_from(st, signer, msg.owner, msg.recipient, msg.amount,
                           wrap)
    ELSE Out(st, ParseErr("HandleMsg"))

\* the loop over msg.initial_balances, after its first n rows
RECURSIVE InitBalances(_, _, _, _)
InitBalances(st, rows, n, wrap) ==
    IF n = 0 THEN [store |-> st, res |-> Ok, total |-> U128Zero]
    ELSE LET before == InitBalances(st, rows, n - 1, wrap)
             row == rows[n]
             raw_address == parse_20bytes_from_hex(row.address)
             amount_raw == parse_u128(row.amount)
         IN  IF before.res.tag # "Ok" THEN before
             ELSE IF raw_address.tag # "Ok"
                  THEN [before EXCEPT !.res = raw_address]
             ELSE IF amount_raw.tag # "Ok"
                  THEN [before EXCEPT !.res = amount_raw]
             ELSE LET s1 == StoreSet(before.store, raw_address.val,
                                     to_be_bytes(amount_raw.val))
                  IN  IF AddOverflows(before.total, amount_raw.val) /\ ~wrap
                      THEN [store |-> s1,
                            res |-> Panic("attempt to add with overflow"),
                            total |-> before.total]
                      ELSE [store |-> s1, res |-> Ok,
                            total |-> WrappingAdd(before.total, amount_raw.val)]

InitMsg(name, symbol, decimals, initial_balances) ==
    [variant |-> "init", name |-> name, symbol |-> symbol,
     decimals |-> decimals, initial_balances |-> initial_balances]
InitialBalance(address, amount) == [address |-> address, amount |-> amount]

init(st, msg, wrap) ==
    IF msg.variant # "init" THEN Out(st, ParseErr("InitMsg"))
    ELSE IF ~is_valid_name(msg.name)
         THEN Out(st, ContractErr("Name is not in the expected format (3-30 UTF-8 bytes)"))
    ELSE LET s1 == StoreSet(st, KEY_NAME, msg.name)
         IN  IF ~is_valid_symbol(msg.symbol)
             THEN Out(s1, ContractErr("Ticker symbol is not in expected format [A-Z]{3,6}"))
             ELSE LET s2 == StoreSet(s1, KEY_SYMBOL, msg.symbol)
                  IN  IF msg.decimals > 18
                      THEN Out(s2, ContractErr("Decimals must not exceed 18"))
                      ELSE LET s3 == StoreSet(s2, KEY_DECIMALS,
                                              u8_to_be_bytes(msg.decimals))
                               loop == InitBalances(s3, msg.initial_balances,
                                           Len(msg.initial_balances), wrap)
                           IN  IF loop.res.tag # "Ok"
                               THEN Out(loop.store, loop.res)
                               ELSE Out(StoreSet(loop.store, KEY_TOTAL_SUPPLY,
                                            to_be_bytes(loop.total)),
                                        ResponseDefault)

-----------------------------------------------------------------------------
(* The state machine: one init call on an empty store, then handle calls.   *)
(* The store is the one the contract writes through; what a call has        *)
(* written stays written whatever the call returns.                         *)

\* "Tok" and "ab"
NameTexts == {<<84, 111, 107>>, <<97, 98>>}
\* "TOK" and "tok"
SymbolTexts == {<<84, 79, 75>>, <<116, 111, 107>>}
DecimalsValues == {18, 19}
SeedRows ==
    {InitialBalance(a, n) : a \in {AddrA, AddrB, AddrShort},
                            n \in {AmtTwo, AmtMax, AmtBad}}
RECURSIVE SeedLists(_)
SeedLists(n) ==
    IF n = 0 THEN {<<>>}
    ELSE LET shorter == SeedLists(n - 1)
         IN  shorter \cup {Append(l, r) : l \in {x \in shorter : Len(x) = n - 1},
                                          r \in SeedRows}
InitMsgs ==
    {InitMsg(n, s, d, l) : n \in NameTexts, s \in SymbolTexts,
                           d \in DecimalsValues, l \in SeedLists(MaxSeed)}
    \cup {GarbageMsg}

\* requests with one malformed part
MalformedCalls ==
    {[signer |-> AddrA, msg |-> GarbageMsg],
     [signer |-> AddrShort, msg |-> ApproveMsg(AddrB, AmtOne)],
     [signer |-> AddrA, msg |-> ApproveMsg(AddrShort, AmtOne)],
     [signer |-> AddrA, msg |-> ApproveMsg(AddrB, AmtBad)],
     [signer |-> AddrShort, msg |-> TransferMsg(AddrB, AmtOne)],
     [signer |-> AddrA, msg |-> TransferMsg(AddrShort, AmtOne)],
     [signer |-> AddrA, msg |-> TransferMsg(AddrB, AmtBad)],
     [signer |-> AddrShort, msg |-> TransferFromMsg(AddrA, AddrB, AmtOne)],
     [signer |-> AddrB, msg |-> TransferFromMsg(AddrShort, AddrB, AmtOne)],
     [signer |-> AddrB, msg |-> TransferFromMsg(AddrA, AddrShort, AmtOne)],
     [signer |-> AddrB, msg |-> TransferFromMsg(AddrA, AddrB, AmtBad)]}

NoCall == [entry |-> "none"]

\* the decoded addresses of a seed list are pairwise distinct
SeedDistinct(rows) ==
    \A i, j \in 1..Len(rows) :
        i # j => parse_20bytes_from_hex(rows[i].address)
                 # parse_20bytes_from_hex(rows[j].address)

\* the sum of the amounts a seed list names: value = hi * 2^128 + lo
RECURSIVE SeedSum(_, _)
SeedSum(rows, n) ==
    IF n = 0 THEN [hi |-> 0, lo |-> U128Zero]
    ELSE LET rest == SeedSum(rows, n - 1)
             v == Amt(rows[n].amount)
         IN  [hi |-> rest.hi + (IF AddOverflows(rest.lo, v) THEN 1 ELSE 0),
              lo |-> WrappingAdd(rest.lo, v)]

\* hist.distinct: init returned Ok on a seed list without a repeated address
\* hist.moves: every handle call so far was a transfer or transferFrom
\*             that returned Ok
\* hist.meta: the metadata and total_supply entries init left
\* hist.fits: init returned Ok on a seed list whose amounts sum to less
\*            than 2^128
MetaKeys == {KEY_NAME, KEY_SYMBOL, KEY_DECIMALS, KEY_TOTAL_SUPPLY}
HistAfterInit(st, msg, res) ==
    [distinct |-> res.tag = "Ok" /\ SeedDistinct(msg.initial_balances),
     moves |-> TRUE,
     meta |-> [k \in MetaKeys \cap DOMAIN st |-> st[k]],
     fits |-> res.tag = "Ok"
              /\ SeedSum(msg.initial_balances, Len(msg.initial_balances)).hi = 0]
HistAfter(h, msg, res) ==
    [h EXCEPT !.moves = h.moves /\ res.tag = "Ok"
                        /\ msg.variant \in {"transfer", "transferfrom"}]

Init ==
    /\ store = EmptyStore
    /\ phase = "new"
    /\ pre = EmptyStore
    /\ last = NoCall
    /\ calls = 0
    /\ hist = [distinct |-> FALSE, moves |-> TRUE, meta |-> EmptyStore,
               fits |-> FALSE]

\* a build's `+=` on u128 either wraps on overflow or aborts
WrapModes == BOOLEAN

InitCall ==
    /\ phase = "new"
    /\ \E msg \in InitMsgs :
          \E o \in {init(store, msg, wrap) : wrap \in WrapModes} :
              /\ store' = o.store
              /\ pre' = store
              /\ last' = [entry |-> "init", msg |-> msg, res |-> o.res]
              /\ phase' = IF o.res.tag = "Ok" THEN "ready" ELSE "dead"
              /\ hist' = HistAfterInit(o.store, msg, o.res)
    /\ UNCHANGED calls

\* one handle call by signer with payload msg
HandleCall(signer, msg) ==
    \E o \in {handle(store, signer, msg, wrap) : wrap \in WrapModes} :
        /\ store' = o.store
        /\ pre' = store
        /\ last' = [entry |-> "handle", signer |-> signer, msg |-> msg,
                    res |-> o.res]
        /\ hist' = HistAfter(hist, msg, o.res)
        /\ calls' = calls + 1
        /\ UNCHANGED phase

Approve ==
    /\ phase = "ready"
    /\ calls < MaxCalls
    /\ \E signer \in GoodAddrTexts, spender \in GoodAddrTexts,
          amount \in GoodAmtTexts :
           HandleCall(signer, ApproveMsg(spender, amount))

Transfer ==
    /\ phase = "ready"
    /\ calls < MaxCalls
    /\ \E signer \in GoodAddrTexts, recipient \in GoodAddrTexts,
          amount \in GoodAmtTexts :
           HandleCall(signer, TransferMsg(recipient, amount))

TransferFrom ==
    /\ phase = "ready"
    /\ calls < MaxCalls
    /\ \E signer \in GoodAddrTexts, owner \in GoodAddrTexts,
          recipient \in GoodAddrTexts, amount \in GoodAmtTexts :
           HandleCall(signer, TransferFromMsg(owner, recipient, amount))

Malformed ==
    /\ phase = "ready"
    /\ calls < MaxCalls
    /\ \E c \in MalformedCalls : HandleCall(c.signer, c.msg)

Next == InitCall \/ Approve \/ Transfer \/ TransferFrom \/ Malformed

Spec == Init /\ [][Next]_vars

-----------------------------------------------------------------------------
(* Reading the ledger *)

\* balance(a) and allowance(o, s) of a store whose amounts are well-formed
BalanceOf(st, a) == read_u128(st, a).val
AllowanceOf(st, o, s) == read_allowance(st, o, s).val
TotalSupplyOf(st) == read_u128(st, KEY_TOTAL_SUPPLY).val

TypeOK ==
    /\ phase \in {"new", "ready", "dead"}
    /\ calls \in 0..MaxCalls
    /\ \A k \in DOMAIN store : Len(store[k]) > 0

\* the 20-byte (balance) keys of a store, with the addresses explored
BalanceKeys(st) == {k \in DOMAIN st : Len(k) = AddrBytes} \cup RawAddrs

\* the sum of balance(a) over a set of addresses: value = hi * 2^128 + lo
RECURSIVE SumBalances(_, _)
SumBalances(st, keys) ==
    IF keys = {} THEN [hi |-> 0, lo |-> U128Zero]
    ELSE LET k == CHOOSE x \in keys : TRUE
             rest == SumBalances(st, keys \ {k})
             v == BalanceOf(st, k)
         IN  [hi |-> rest.hi + (IF AddOverflows(rest.lo, v) THEN 1 ELSE 0),
              lo |-> WrappingAdd(rest.lo, v)]

Conserved(st) ==
    LET sum == SumBalances(st, BalanceKeys(st))
    IN  sum.hi = 0 /\ sum.lo = TotalSupplyOf(st)

\* the last call, when its texts are well-formed
LastHandle(v) == last.entry = "handle" /\ last.msg.variant = v
LastOk == last.res.tag = "Ok"
GoodAddr(t) == parse_20bytes_from_hex(t).tag = "Ok"
GoodAmt(t) == parse_u128(t).tag = "Ok"
LastTransfer ==
    /\ LastHandle("transfer")
    /\ GoodAddr(last.signer) /\ GoodAddr(last.msg.recipient)
    /\ GoodAmt(last.msg.amount)
LastTransferFrom ==
    /\ LastHandle("transferfrom")
    /\ GoodAddr(last.signer) /\ GoodAddr(last.msg.owner)
    /\ GoodAddr(last.msg.recipient) /\ GoodAmt(last.msg.amount)
LastApprove ==
    /\ LastHandle("approve")
    /\ GoodAddr(last.signer) /\ GoodAddr(last.msg.spender)
    /\ GoodAmt(last.msg.amount)
LastErr(m) == last.res.tag \in {"ContractErr", "DynContractErr"} /\ last.res.msg = m

-----------------------------------------------------------------------------
(* The claims *)

\* C1: after a successful init on a seed list without a repeated address and
\* any sequence of successful transfer and transferFrom calls, the balances
\* sum to the stored total_supply.
C1_Conservation ==
    (phase = "ready" /\ hist.distinct /\ hist.moves) => Conserved(store)

\* C2: a transfer whose signer's balance is below the amount returns the
\* insufficient-funds error and leaves the whole store as it was.
C2_SufficiencyGate ==
    (/\ LastTransfer
     /\ U128Less(BalanceOf(pre, Raw(last.signer)), Amt(last.msg.amount)))
    => (LastErr("Insufficient funds") /\ store = pre)

\* the gate has refused a transfer from an account that holds something
C2_Witness ==
    /\ LastTransfer
    /\ BalanceOf(pre, Raw(last.signer)) # U128Zero
    /\ U128Less(BalanceOf(pre, Raw(last.signer)), Amt(last.msg.amount))
    /\ LastErr("Insufficient funds")

\* C3: a transferFrom whose allowance (owner, spender) is below the amount
\* returns the insufficient-allowance error and leaves every balance and
\* that allowance unchanged, whatever the owner's balance.
C3_AllowanceGate ==
    (/\ LastTransferFrom
     /\ U128Less(AllowanceOf(pre, Raw(last.msg.owner), Raw(last.signer)),
                 Amt(last.msg.amount)))
    => (/\ LastErr("Insufficient allowance")
        /\ \A a \in BalanceKeys(store) \cup BalanceKeys(pre) :
              BalanceOf(store, a) = BalanceOf(pre, a)
        /\ AllowanceOf(store, Raw(last.msg.owner), Raw(last.signer))
           = AllowanceOf(pre, Raw(last.msg.owner), Raw(last.signer)))

\* the gate has refused a spender with a smaller, non-zero allowance on an
\* owner whose balance covers the amount
C3_Witness ==
    /\ LastTransferFrom
    /\ AllowanceOf(pre, Raw(last.msg.owner), Raw(last.signer)) # U128Zero
    /\ U128Less(AllowanceOf(pre, Raw(last.msg.owner), Raw(last.signer)),
                Amt(last.msg.amount))
    /\ ~U128Less(BalanceOf(pre, Raw(last.msg.owner)), Amt(last.msg.amount))
    /\ LastErr("Insufficient allowance")

\* C4: approve(owner, spender, Y) returns Ok and leaves allowance
\* (owner, spender) equal to Y, whatever the allowance was before and
\* whatever the owner's balance is.
C4_ApproveOverwrite ==
    LastApprove
    => (/\ LastOk
        /\ AllowanceOf(store, Raw(last.signer), Raw(last.msg.spender))
           = Amt(last.msg.amount))

\* approve Y has followed an approve X of the same pair, X neither 0 nor Y,
\* by an owner whose balance is below Y
C4_Witness ==
    /\ LastApprove /\ LastOk
    /\ StoreHas(pre, AllowanceKey(Raw(last.signer), Raw(last.msg.spender)))
    /\ AllowanceOf(pre, Raw(last.signer), Raw(last.msg.spender))
       \notin {U128Zero, Amt(last.msg.amount)}
    /\ U128Less(BalanceOf(pre, Raw(last.signer)), Amt(last.msg.amount))

\* C5: a handle call that returns an error leaves the whole store as it was
\* before the call.
C5_NoPartialOutcome ==
    (last.entry = "handle" /\ last.res.tag \notin {"Ok", "Panic"})
    => store = pre

\* C6: after a successful init on pairwise distinct seed addresses every
\* seeded balance is the listed amount, every other balance and every
\* allowance is 0, and total_supply is the sum of the listed amounts.
C6_InitOutcome ==
    (/\ last.entry = "init" /\ LastOk
     /\ SeedDistinct(last.msg.initial_balances))
    => LET rows == last.msg.initial_balances
           seeded == {Raw(rows[i].address) : i \in 1..Len(rows)}
           sum == SeedSum(rows, Len(rows))
       IN  /\ \A i \in 1..Len(rows) :
                 BalanceOf(store, Raw(rows[i].address)) = Amt(rows[i].amount)
           /\ \A a \in BalanceKeys(store) \ seeded :
                 BalanceOf(store, a) = U128Zero
           /\ \A o \in RawAddrs, sp \in RawAddrs :
                 AllowanceOf(store, o, sp) = U128Zero
           /\ sum.hi = 0 /\ sum.lo = TotalSupplyOf(store)

\* C7: a successful transfer of amt from f to t, f # t, leaves balance(f)
\* lowered by amt, balance(t) raised by amt, and every other balance and
\* total_supply unchanged.
C7_TransferEffect ==
    (LastTransfer /\ LastOk /\ Raw(last.signer) # Raw(last.msg.recipient))
    => LET f == Raw(last.signer)
           t == Raw(last.msg.recipient)
           amt == Amt(last.msg.amount)
       IN  /\ ~U128Less(BalanceOf(pre, f), amt)
           /\ BalanceOf(store, f) = WrappingSub(BalanceOf(pre, f), amt)
           /\ ~AddOverflows(BalanceOf(pre, t), amt)
           /\ BalanceOf(store, t) = WrappingAdd(BalanceOf(pre, t), amt)
           /\ \A a \in (BalanceKeys(store) \cup BalanceKeys(pre)) \ {f, t} :
                 BalanceOf(store, a) = BalanceOf(pre, a)
           /\ TotalSupplyOf(store) = TotalSupplyOf(pre)

\* C8: a successful transferFrom of amt by spender s from owner o to
\* recipient r, o # r, lowers allowance (o, s) by amt, lowers balance(o) by
\* amt, raises balance(r) by amt and does not lower the spender's balance.
C8_TransferFromEffect ==
    (/\ LastTransferFrom /\ LastOk
     /\ Raw(last.msg.owner) # Raw(last.msg.recipient))
    => LET sp == Raw(last.signer)
           o == Raw(last.msg.owner)
           r == Raw(last.msg.recipient)
           amt == Amt(last.msg.amount)
       IN  /\ ~U128Less(AllowanceOf(pre, o, sp), amt)
           /\ AllowanceOf(store, o, sp)
              = WrappingSub(AllowanceOf(pre, o, sp), amt)
           /\ ~U128Less(BalanceOf(pre, o), amt)
           /\ BalanceOf(store, o) = WrappingSub(BalanceOf(pre, o), amt)
           /\ ~AddOverflows(BalanceOf(pre, r), amt)
           /\ BalanceOf(store, r) = WrappingAdd(BalanceOf(pre, r), amt)
           /\ (sp # o => ~U128Less(BalanceOf(store, sp), BalanceOf(pre, sp)))

\* C9: an init call that fails the validation of name, symbol or decimals
\* has written nothing to the store.
C9_InitValidatesFirst ==
    (/\ last.entry = "init"
     /\ \/ LastErr("Name is not in the expected format (3-30 UTF-8 bytes)")
        \/ LastErr("Ticker symbol is not in expected format [A-Z]{3,6}")
        \/ LastErr("Decimals must not exceed 18"))
    => store = pre

\* the keys a handle call may write
AllowedKeys ==
    IF LastApprove
    THEN {AllowanceKey(Raw(last.signer), Raw(last.msg.spender))}
    ELSE IF LastTransfer
    THEN {Raw(last.signer), Raw(last.msg.recipient)}
    ELSE IF LastTransferFrom
    THEN {AllowanceKey(Raw(last.msg.owner), Raw(last.signer)),
          Raw(last.msg.owner), Raw(last.msg.recipient)}
    ELSE {}

Changed(k) ==
    \/ StoreHas(store, k) # StoreHas(pre, k)
    \/ StoreHas(store, k) /\ StoreHas(pre, k) /\ store[k] # pre[k]

\* C10: after init the name, symbol, decimals and total_supply entries stay
\* as init left them, and a handle call changes no entry other than the
\* allowance (signer, spender) for approve, the balances of signer and
\* recipient for transfer, and the allowance (owner, signer) and the
\* balances of owner and recipient for transferFrom.
C10_HandleFrame ==
    /\ phase = "ready" =>
          \A k \in MetaKeys : StoreHas(store, k) /\ store[k] = hist.meta[k]
    /\ last.entry = "handle" =>
          \A k \in (DOMAIN store) \cup (DOMAIN pre) :
              Changed(k) => k \in AllowedKeys

\* a transferFrom has succeeded and rewritten its three entries
C10_Witness ==
    /\ LastTransferFrom /\ LastOk
    /\ \A k \in AllowedKeys : Changed(k)
    /\ Cardinality(AllowedKeys) = 3

-----------------------------------------------------------------------------
(* read_u128 on an arbitrary store: one entry of any length up to           *)
(* MaxValueLen under a balance, an allowance or the total_supply key.       *)

ReadKeys == {Raw(AddrA), AllowanceKey(Raw(AddrA), Raw(AddrB)), KEY_TOTAL_SUPPLY}
ReadValues ==
    {Rep(n, b) : n \in 0..MaxValueLen, b \in {0, 255}}
    \cup {[i \in 1..n |-> i] : n \in 1..MaxValueLen}
ReadStores ==
    {EmptyStore} \cup {StoreSet(EmptyStore, k, v) : k \in ReadKeys, v \in ReadValues}

ReadInit ==
    /\ store \in ReadStores
    /\ phase = "probe"
    /\ pre = EmptyStore
    /\ last = NoCall
    /\ calls = 0
    /\ hist = [distinct |-> FALSE, moves |-> TRUE, meta |-> EmptyStore,
               fits |-> FALSE]

ReadCall ==
    /\ phase = "probe"
    /\ \E key \in ReadKeys :
          last' = [entry |-> "read_u128", key |-> key,
                   res |-> read_u128(store, key)]
    /\ pre' = store
    /\ UNCHANGED <<store, phase, calls, hist>>

SpecRead == ReadInit /\ [][ReadCall]_vars

\* C11: read_u128 returns 0 for an absent key, the big-endian value of a
\* stored value of exactly 16 bytes, and the corrupted-data error for a
\* stored value of any other length.
C11_ReadAmount ==
    last.entry = "read_u128"
    => IF ~StoreHas(store, last.key) THEN last.res = OkVal(U128Zero)
       ELSE IF Len(store[last.key]) = U128Bytes
            THEN last.res = OkVal(from_be_bytes(store[last.key]))
            ELSE last.res = ContractErr("Corrupted data found. 16 byte expected.")

-----------------------------------------------------------------------------
(* The mask contract: one stored State{owner}; the owner relays messages    *)
(* and hands the ownership over.                                            *)

\* dependencies(20): length of a canonical address
CanonicalLength == 20

\* Api::canonical_address of the mock api: the text padded with zero bytes,
\* refused when longer than the canonical length
canonical_address(human) ==
    IF Len(human) > CanonicalLength
    THEN ContractErr("human encoding too long")
    ELSE OkVal(human \o Rep(CanonicalLength - Len(human), 0))

\* "creator", "friend", "random", and a text no canonical address holds
Creator == <<99, 114, 101, 97, 116, 111, 114>>
Friend == <<102, 114, 105, 101, 110, 100>>
Random == <<114, 97, 110, 100, 111, 109>>
TooLongHuman == Rep(CanonicalLength + 1, 120)
MaskHumans == {Creator, Friend, Random}
\* mock_env: the signer is the canonical form of a human address
MaskSigners == {canonical_address(h).val : h \in MaskHumans}

\* the key of the singleton holding State
CONFIG_KEY == <<99, 111, 110, 102, 105, 103>>
State(owner) == [owner |-> owner]
\* config(storage).load()
config_load(st) ==
    IF StoreHas(st, CONFIG_KEY) THEN OkVal(st[CONFIG_KEY])
    ELSE [tag |-> "NotFound", msg |-> "State"]
\* config(storage).save(state)
config_save(st, state) == StoreSet(st, CONFIG_KEY, state)

Unauthorized == [tag |-> "Unauthorized"]
log(key, value) == [key |-> key, value |-> value]
MaskResponse(messages, lg) ==
    [tag |-> "Ok", messages |-> messages, log |-> lg, data |-> "None"]

mask_init(st, signer) == Out(config_save(st, State(signer)), ResponseDefault)

\* try_reflect without the comparison of the signer with the owner
try_reflect_any_signer(st, signer, msg) ==
    LET s == config_load(st)
    IN  IF s.tag # "Ok" THEN Out(st, s)
        ELSE Out(st, MaskResponse(<<msg>>, <<log("action", "reflect")>>))

try_reflect(st, signer, msg) ==
    LET s == config_load(st)
    IN  IF s.tag # "Ok" THEN Out(st, s)
        ELSE IF signer # s.val.owner THEN Out(st, Unauthorized)
        ELSE Out(st, MaskResponse(<<msg>>, <<log("action", "reflect")>>))

\* try_change_owner that answers without storing the new owner
try_change_owner_not_saved(st, signer, owner) ==
    LET s == config_load(st)
    IN  IF s.tag # "Ok" THEN Out(st, s)
        ELSE IF signer # s.val.owner THEN Out(st, Unauthorized)
        ELSE LET c == canonical_address(owner)
             IN  IF c.tag # "Ok" THEN Out(st, c)
                 ELSE Out(st, MaskResponse(<<>>,
                              <<log("action", "change_owner"), log("owner", owner)>>))

\* config(storage).update(closure): load, run the closure, save what it returns
try_change_owner(st, signer, owner) ==
    LET s == config_load(st)
    IN  IF s.tag # "Ok" THEN Out(st, s)
        ELSE IF signer # s.val.owner THEN Out(st, Unauthorized)
        ELSE LET c == canonical_address(owner)
             IN  IF c.tag # "Ok" THEN Out(st, c)
                 ELSE Out(config_save(st, [s.val EXCEPT !.owner = c.val]),
                          MaskResponse(<<>>,
                              <<log("action", "change_owner"), log("owner", owner)>>))

ReflectMsg(msg) == [variant |-> "reflectmsg", msg |-> msg]
ChangeOwner(owner) == [variant |-> "changeowner", owner |-> owner]

mask_handle(st, signer, msg) ==
    IF msg.variant = "reflectmsg" THEN try_reflect(st, signer, msg.msg)
    ELSE try_change_owner(st, signer, msg.owner)

\* CosmosMsg::Send payloads
Send(from_address, to_address, amount) ==
    [variant |-> "send", from_address |-> from_address,
     to_address |-> to_address, amount |-> amount]
MaskPayloads == {Send(Creator, Friend, "1token"), Send(Friend, Random, "2token")}

OwnerOf(st) == st[CONFIG_KEY].owner

MaskInit ==
    /\ store = EmptyStore
    /\ phase = "new"
    /\ pre = EmptyStore
    /\ last = NoCall
    /\ calls = 0
    /\ hist = [changed |-> FALSE, prev |-> <<>>]

MaskInitCall ==
    /\ phase = "new"
    /\ \E signer \in MaskSigners :
          LET o == mask_init(store, signer)
          IN  /\ store' = o.store
              /\ last' = [entry |-> "init", signer |-> signer, res |-> o.res]
    /\ phase' = "ready"
    /\ pre' = store
    /\ UNCHANGED <<calls, hist>>

MaskHandleCall(signer, msg) ==
    LET o == mask_handle(store, signer, msg)
    IN  /\ store' = o.store
        /\ pre' = store
        /\ last' = [entry |-> "handle", signer |-> signer, msg |-> msg, res |-> o.res]
        /\ hist' = IF msg.variant = "changeowner" /\ o.res.tag = "Ok"
                   THEN [changed |-> TRUE, prev |-> OwnerOf(store)]
                   ELSE hist
        /\ calls' = calls + 1
        /\ UNCHANGED phase

MaskReflect ==
    /\ phase = "ready"
    /\ calls < MaxMaskCalls
    /\ \E signer \in MaskSigners, p \in MaskPayloads :
          MaskHandleCall(signer, ReflectMsg(p))

MaskChangeOwner ==
    /\ phase = "ready"
    /\ calls < MaxMaskCalls
    /\ \E signer \in MaskSigners, h \in MaskHumans \cup {TooLongHuman} :
          MaskHandleCall(signer, ChangeOwner(h))

MaskNext == MaskInitCall \/ MaskReflect \/ MaskChangeOwner
SpecMask == MaskInit /\ [][MaskNext]_vars

LastMask(v) == last.entry = "handle" /\ last.msg.variant = v

\* C12: a ReflectMsg or ChangeOwner call whose signer is not the stored owner
\* returns Unauthorized, emits no message and leaves the stored owner as it was.
C12_RelayAuthorization ==
    (last.entry = "handle" /\ last.signer # OwnerOf(pre))
    => /\ last.res = Unauthorized
       /\ OwnerOf(store) = OwnerOf(pre)
       /\ store = pre

\* a stranger's ChangeOwner naming an acceptable address, after the ownership moved
C12_Witness ==
    /\ LastMask("changeowner")
    /\ hist.changed
    /\ last.signer # OwnerOf(pre)
    /\ last.signer # hist.prev
    /\ canonical_address(last.msg.owner).tag = "Ok"

-----------------------------------------------------------------------------
(* init on the boundaries of its metadata checks *)

\* names of 2, 3, 30 and 31 bytes, and "a" followed by a two-byte character
ProbeNames ==
    {Rep(n, 97) : n \in {2, 3, 30, 31}} \cup {<<97, 195, 169>>}
\* "TO", "TOK", "AZZ", "TOKENS", "TOKENSX", "tok", "TO@", "TO["
ProbeSymbols ==
    {<<84, 79>>, <<84, 79, 75>>, <<65, 90, 90>>, <<84, 79, 75, 69, 78, 83>>,
     <<84, 79, 75, 69, 78, 83, 88>>, <<116, 111, 107>>, <<84, 79, 64>>,
     <<84, 79, 91>>}
\* decimals: u8
ProbeDecimals == {0, 18, 19, 255}
ProbeSeeds ==
    {<<>>,
     <<InitialBalance(AddrA, AmtTwo)>>,
     <<InitialBalance(AddrA, AmtTwo), InitialBalance(AddrB, AmtMax)>>,
     <<InitialBalance(AddrA, AmtMax), InitialBalance(AddrA, AmtTwo)>>,
     <<InitialBalance(AddrShort, AmtTwo)>>,
     <<InitialBalance(AddrA, AmtBad)>>}
ProbeMsgs ==
    {InitMsg(n, s, d, l) : n \in ProbeNames, s \in ProbeSymbols,
                           d \in ProbeDecimals, l \in ProbeSeeds}

InitProbe ==
    /\ phase = "new"
    /\ \E msg \in ProbeMsgs :
          \E o \in {init(store, msg, wrap) : wrap \in WrapModes} :
              /\ store' = o.store
              /\ pre' = store
              /\ last' = [entry |-> "init", msg |-> msg, res |-> o.res]
              /\ phase' = IF o.res.tag = "Ok" THEN "ready" ELSE "dead"
              /\ hist' = HistAfterInit(o.store, msg, o.res)
    /\ UNCHANGED calls

SpecInit == Init /\ [][InitProbe]_vars

SeedWellFormed(rows) ==
    \A i \in 1..Len(rows) : GoodAddr(rows[i].address) /\ GoodAmt(rows[i].amount)

\* C14: with every seed address and amount well-formed, init succeeds exactly
\* when the name has 3 to 30 bytes, the symbol has 3 to 6 bytes, each an
\* uppercase letter A-Z, and decimals is at most 18.
C14_InitAcceptance ==
    (last.entry = "init" /\ last.msg.variant = "init"
     /\ SeedWellFormed(last.msg.initial_balances))
    => (last.res.tag = "Ok"
        <=> /\ Len(last.msg.name) \in 3..30
            /\ Len(last.msg.symbol) \in 3..6
            /\ \A i \in 1..Len(last.msg.symbol) : last.msg.symbol[i] \in 65..90
            /\ last.msg.decimals <= 18)

-----------------------------------------------------------------------------
(* Claims on the token contract's ordering, seeding and encoding *)

\* C15: a transferFrom whose allowance (owner, spender) covers the amount
\* while the owner's balance does not returns the insufficient-funds error,
\* leaves every balance unchanged and leaves allowance (owner, spender)
\* reduced by the amount in the store.
C15_TransferFromOrdering ==
    LET sp == Raw(last.signer)
        o == Raw(last.msg.owner)
        amt == Amt(last.msg.amount)
    IN  (/\ LastTransferFrom
         /\ ~U128Less(AllowanceOf(pre, o, sp), amt)
         /\ U128Less(BalanceOf(pre, o), amt))
        => (/\ LastErr("Insufficient funds")
            /\ \A a \in BalanceKeys(store) \cup BalanceKeys(pre) :
                  BalanceOf(store, a) = BalanceOf(pre, a)
            /\ AllowanceOf(store, o, sp)
               = WrappingSub(AllowanceOf(pre, o, sp), amt))

\* a spender with a sufficient allowance was refused for the owner's lack of
\* funds, and the allowance in the store is no longer what it was
C15_Witness ==
    /\ LastTransferFrom
    /\ ~U128Less(AllowanceOf(pre, Raw(last.msg.owner), Raw(last.signer)),
                 Amt(last.msg.amount))
    /\ U128Less(BalanceOf(pre, Raw(last.msg.owner)), Amt(last.msg.amount))
    /\ LastErr("Insufficient funds")
    /\ AllowanceOf(store, Raw(last.msg.owner), Raw(last.signer))
       # AllowanceOf(pre, Raw(last.msg.owner), Raw(last.signer))

\* the row of the last occurrence of the address of row i
LastOccurrence(rows, i) ==
    CHOOSE j \in 1..Len(rows) :
        /\ Raw(rows[j].address) = Raw(rows[i].address)
        /\ \A k \in (j + 1)..Len(rows) :
              Raw(rows[k].address) # Raw(rows[i].address)

\* a is strictly below b, both of the form hi * 2^128 + lo
WideLess(a, b) == a.hi < b.hi \/ (a.hi = b.hi /\ U128Less(a.lo, b.lo))

\* C16: after a successful init whose seed list repeats an address, every
\* seeded balance is the amount of the address's last occurrence,
\* total_supply is the sum of all listed amounts, and the balances sum to
\* strictly less than total_supply when an overwritten amount is not 0.
C16_DuplicateSeeds ==
    (/\ last.entry = "init" /\ LastOk
     /\ ~SeedDistinct(last.msg.initial_balances))
    => LET rows == last.msg.initial_balances
           sum == SeedSum(rows, Len(rows))
           held == SumBalances(store, BalanceKeys(store))
       IN  /\ \A i \in 1..Len(rows) :
                 BalanceOf(store, Raw(rows[i].address))
                 = Amt(rows[LastOccurrence(rows, i)].amount)
           /\ sum.hi = 0 /\ TotalSupplyOf(store) = sum.lo
           /\ (\E i \in 1..Len(rows) :
                  LastOccurrence(rows, i) # i /\ Amt(rows[i].amount) # U128Zero)
              => WideLess(held, [hi |-> 0, lo |-> TotalSupplyOf(store)])

\* the keys the contract keeps amounts under
AmountKeys(st) ==
    {k \in DOMAIN st :
        Len(k) = AddrBytes \/ Len(k) = 2 * AddrBytes \/ k = KEY_TOTAL_SUPPLY}

C19_DebitAuthorization ==
    last.entry = "handle"
    => \A a \in BalanceKeys(store) \cup BalanceKeys(pre) :
          U128Less(BalanceOf(store, a), BalanceOf(pre, a))
          => \/ LastTransfer /\ Raw(last.signer) = a
             \/ /\ LastTransferFrom
                /\ Raw(last.msg.owner) = a
                /\ ~U128Less(AllowanceOf(pre, a, Raw(last.signer)),
                             Amt(last.msg.amount))

\* C20: after a successful init on pairwise distinct seed addresses whose
\* amounts sum to less than 2^128, every balance is at most total_supply and
\* no credit of a transfer or transferFrom passes 2^128 - 1.
C20_NoCreditOverflow ==
    (phase = "ready" /\ hist.distinct /\ hist.fits)
    => /\ \A a \in BalanceKeys(store) :
             ~U128Less(TotalSupplyOf(store), BalanceOf(store, a))
       /\ last.res.tag # "Panic"
       /\ (LastTransfer /\ LastOk)
          => ~AddOverflows(BalanceOf(pre, Raw(last.msg.recipient)),
                           Amt(last.msg.amount))
       /\ (LastTransferFrom /\ LastOk)
          => ~AddOverflows(BalanceOf(pre, Raw(last.msg.recipient)),
                           Amt(last.msg.amount))

-----------------------------------------------------------------------------
(* Approvals and the spending under them: a token seeded for two holders,   *)
(* then approve and transferFrom calls.  hist.cap is the amount of the      *)
(* latest approve of a pair (0 before the first), hist.spent the sum of the *)
(* amounts of the successful transferFrom calls of the pair since then.     *)

AllowHolders == {AddrA, AddrB}
AllowAmounts == {AmtOne, AmtTwo}
AllowPairs == {<<Raw(o), Raw(s)>> : o \in AllowHolders, s \in AllowHolders}
AllowSeed ==
    InitMsg(<<84, 111, 107>>, <<84, 79, 75>>, 18,
            <<InitialBalance(AddrA, AmtTwo), InitialBalance(AddrB, AmtTwo)>>)
WideZero == [hi |-> 0, lo |-> U128Zero]
WideAdd(w, v) ==
    [hi |-> w.hi + (IF AddOverflows(w.lo, v) THEN 1 ELSE 0),
     lo |-> WrappingAdd(w.lo, v)]

AllowInit ==
    /\ store = init(EmptyStore, AllowSeed, FALSE).store
    /\ phase = "ready"
    /\ pre = EmptyStore
    /\ last = NoCall
    /\ calls = 0
    /\ hist = [cap |-> [p \in AllowPairs |-> U128Zero],
               spent |-> [p \in AllowPairs |-> WideZero]]

AllowHistAfter(h, signer, msg, res) ==
    IF msg.variant = "approve" /\ res.tag = "Ok"
    THEN LET p == <<Raw(signer), Raw(msg.spender)>>
         IN  [cap |-> [h.cap EXCEPT ![p] = Amt(msg.amount)],
              spent |-> [h.spent EXCEPT ![p] = WideZero]]
    ELSE IF msg.variant = "transferfrom" /\ res.tag = "Ok"
    THEN LET p == <<Raw(msg.owner), Raw(signer)>>
         IN  [h EXCEPT !.spent[p] = WideAdd(h.spent[p], Amt(msg.amount))]
    ELSE h

AllowCall(signer, msg) ==
    \E o \in {handle(store, signer, msg, wrap) : wrap \in WrapModes} :
        /\ store' = o.store
        /\ pre' = store
        /\ last' = [entry |-> "handle", signer |-> signer, msg |-> msg,
                    res |-> o.res]
        /\ hist' = AllowHistAfter(hist, signer, msg, o.res)
        /\ calls' = calls + 1
        /\ UNCHANGED phase

AllowApprove ==
    /\ phase = "ready"
    /\ calls < MaxAllowCalls
    /\ \E signer \in AllowHolders, spender \in AllowHolders,
          amount \in AllowAmounts :
          AllowCall(signer, ApproveMsg(spender, amount))

AllowTransferFrom ==
    /\ phase = "ready"
    /\ calls < MaxAllowCalls
    /\ \E signer \in AllowHolders, owner \in AllowHolders,
          recipient \in AllowHolders, amount \in AllowAmounts :
          AllowCall(signer, TransferFromMsg(owner, recipient, amount))

AllowNext == AllowApprove \/ AllowTransferFrom
SpecAllow == AllowInit /\ [][AllowNext]_vars

\* C18: allowance (o, s) changes only through an approve signed by o naming
\* s or a transferFrom signed by s naming o, and a transferFrom never raises
\* it; the amounts of s's successful transferFrom calls on o since the
\* latest approve of (o, s) sum to at most the amount of that approve.
C18_SpenderCap ==
    /\ last.entry = "handle"
       => \A p \in AllowPairs :
             /\ AllowanceOf(store, p[1], p[2]) # AllowanceOf(pre, p[1], p[2])
                => \/ /\ LastApprove
                      /\ Raw(last.signer) = p[1]
                      /\ Raw(last.msg.spender) = p[2]
                   \/ /\ LastTransferFrom
                      /\ Raw(last.signer) = p[2]
                      /\ Raw(last.msg.owner) = p[1]
             /\ LastHandle("transferfrom")
                => ~U128Less(AllowanceOf(pre, p[1], p[2]),
                             AllowanceOf(store, p[1], p[2]))
    /\ \A p \in AllowPairs :
          /\ hist.spent[p].hi = 0
          /\ ~U128Less(hist.cap[p], hist.spent[p].lo)

\* under one approve of 2 the spender has moved 1 twice: the sum has reached
\* the approved amount
C18_Witness ==
    /\ LastTransferFrom /\ LastOk
    /\ LET p == <<Raw(last.msg.owner), Raw(last.signer)>>
       IN  /\ p[1] # p[2]
           /\ hist.cap[p] = Amt(AmtTwo)
           /\ hist.spent[p].lo = hist.cap[p]
           /\ Amt(last.msg.amount) = Amt(AmtOne)

====
